---- MODULE Spec2Model ----
(***************************************************************************)
(* Model of the Excel Analyzer's data analysis engine:                     *)
(*   - AnalysisPanel.tsx: isNumericColumn, numericColumns, the default     *)
(*     column selection and the columnStats computation;                   *)
(*   - ChartViewer.tsx: isNumericColumn, the default axis selection, the   *)
(*     chartData aggregation and toggleYAxisField.                         *)
(*                                                                         *)
(* JavaScript values are tagged records.  A string is the sequence of its  *)
(* characters, so that Number(...) really parses and String(...) really    *)
(* formats.  A number is an exact fraction, an infinity or NaN: the cells   *)
(* hold integers and the texts Infinity and -Infinity, the quotients the   *)
(* code computes (mean, median, variance) are exact; the rounding of       *)
(* binary floating point is not modelled.                                  *)
(***************************************************************************)
EXTENDS Integers, Sequences, FiniteSets

VARIABLES data, selectedColumn, chartType, xAxisField, yAxisFields

\* the state of the data table (DataViewer.tsx)
VARIABLES searchTerm, filteredData, sortColumn, sortDirection, currentPage,
          rowsPerPage, selectedColumns

\* the state of the uploader (ExcelUploader.tsx), the file-processing runs it
\* has started, and the state of the page (Home.tsx)
VARIABLES isDragging, isLoading, progress, error, runs,
          activeTab, excelData, fileName

tableVars ==
  <<searchTerm, filteredData, sortColumn, sortDirection, currentPage,
    rowsPerPage, selectedColumns>>

uploaderVars == <<isDragging, isLoading, progress, error, runs>>

homeVars == <<activeTab, excelData, fileName>>

vars ==
  <<data, selectedColumn, chartType, xAxisField, yAxisFields,
    tableVars, uploaderVars, homeVars>>

----------------------------------------------------------------------------
(* Bounds of the model and constants of the program *)

\* most rows of a dataset handed to the analysis panel
MaxRows == 6

\* most rows of a dataset handed to the chart viewer
MaxChartRows == 3

\* most distinct keys of a dataset made to overflow the frequency table
MaxKeys == 11

\* most rows such a dataset has after the rows that introduce its keys
MaxRepeats == 2

\* most rows of a dataset whose cells hold the texts Infinity and -Infinity
MaxExtremeRows == 4

\* most rows of a dataset handed to the data table
MaxTableRows == 11

\* most processExcelFile runs started in a behaviour
MaxRuns == 3

\* data.slice(0, 5): the rows isNumericColumn looks at
SampleSize == 5

\* .slice(0, 10): the frequencies kept by the categorical statistics
TopN == 10

----------------------------------------------------------------------------
(* The components a specification does not follow stay as they are created *)

\* the useState(...) values of DataViewer
TableCreated ==
  /\ searchTerm = <<>>
  /\ filteredData = <<>>
  /\ sortColumn = ""
  /\ sortDirection = "asc"
  /\ currentPage = 1
  /\ rowsPerPage = 10
  /\ selectedColumns = <<>>

\* excelData of Home: null, or the rows of the file loaded last
NoData == [isNull |-> TRUE, rows |-> <<>>]

Loaded(rows) == [isNull |-> FALSE, rows |-> rows]

\* the page shows the tab of a panel, which it mounts on excelData
PageShows(tab, rows) ==
  /\ activeTab = tab
  /\ excelData = Loaded(rows)
  /\ fileName = "A"

\* the useState(...) values of ExcelUploader, no run started
UploaderCreated ==
  /\ isDragging = FALSE
  /\ isLoading = FALSE
  /\ progress = 0
  /\ error = ""
  /\ runs = <<>>

----------------------------------------------------------------------------
(* JavaScript numbers: exact fractions, the two infinities and NaN *)

RECURSIVE GCD(_, _)
GCD(x, y) == IF y = 0 THEN x ELSE GCD(y, x % y)

Abs(x) == IF x < 0 THEN 0 - x ELSE x

\* the fraction p / q (q > 0) in lowest terms
Frac(p, q) ==
  LET g == GCD(Abs(p), q) IN [num |-> p \div g, den |-> q \div g]

FracOfInt(k) == Frac(k, 1)

\* the finite number k
Finite(k) == FracOfInt(k)

\* the numbers that are no fraction have the denominator 0
NaN == [num |-> 0, den |-> 0]

Infinity == [num |-> 1, den |-> 0]

NegInfinity == [num |-> 0 - 1, den |-> 0]

isNaN(x) == x = NaN

IsInfinite(x) == x = Infinity \/ x = NegInfinity

\* x + y
FracAdd(x, y) ==
  IF isNaN(x) \/ isNaN(y) THEN NaN
  ELSE IF IsInfinite(x) /\ IsInfinite(y) THEN (IF x = y THEN x ELSE NaN)
  ELSE IF IsInfinite(x) THEN x
  ELSE IF IsInfinite(y) THEN y
  ELSE Frac(x.num * y.den + y.num * x.den, x.den * y.den)

\* -x
FracNeg(x) == [num |-> 0 - x.num, den |-> x.den]

\* x - y
FracSub(x, y) == FracAdd(x, FracNeg(y))

\* x * y
FracMul(x, y) ==
  IF isNaN(x) \/ isNaN(y) THEN NaN
  ELSE IF IsInfinite(x) \/ IsInfinite(y)
    THEN IF x.num = 0 \/ y.num = 0 THEN NaN
         ELSE IF (x.num < 0) = (y.num < 0) THEN Infinity
         ELSE NegInfinity
  ELSE Frac(x.num * y.num, x.den * y.den)

\* x / k for an integer k > 0
FracDivInt(x, k) ==
  IF isNaN(x) \/ IsInfinite(x) THEN x ELSE Frac(x.num, x.den * k)

\* x < y
FracLess(x, y) ==
  IF isNaN(x) \/ isNaN(y) THEN FALSE
  ELSE IF IsInfinite(x) /\ IsInfinite(y) THEN x.num < y.num
  ELSE x.num * y.den < y.num * x.den

\* x === y
FracEq(x, y) == ~isNaN(x) /\ ~isNaN(y) /\ x = y

\* x <= y
FracLeq(x, y) == FracLess(x, y) \/ FracEq(x, y)

\* Math.sqrt(x): NaN for NaN and for a negative number, otherwise the
\* non-negative root, kept as the number it is the root of
Sqrt(x) ==
  IF isNaN(x) \/ x.num < 0 THEN [nan |-> TRUE, square |-> NaN]
  ELSE [nan |-> FALSE, square |-> x]

----------------------------------------------------------------------------
(* JavaScript values *)

Undefined == [t |-> "undefined", n |-> Finite(0), s |-> <<>>]

Null == [t |-> "null", n |-> Finite(0), s |-> <<>>]

\* the number x as the value of a cell or of a property
NumValue(x) == [t |-> "number", n |-> x, s |-> <<>>]

Num(k) == NumValue(Finite(k))

Str(cs) == [t |-> "string", n |-> Finite(0), s |-> cs]

Digits == <<"0", "1", "2", "3", "4", "5", "6", "7", "8", "9">>

IsDigit(ch) == \E i \in 1..Len(Digits) : Digits[i] = ch

DigitVal(ch) == (CHOOSE i \in 1..Len(Digits) : Digits[i] = ch) - 1

IsWhiteSpace(ch) == ch = " "

RECURSIVE TrimStart(_)
TrimStart(cs) ==
  IF cs # <<>> /\ IsWhiteSpace(Head(cs)) THEN TrimStart(Tail(cs)) ELSE cs

RECURSIVE TrimEnd(_)
TrimEnd(cs) ==
  IF cs # <<>> /\ IsWhiteSpace(cs[Len(cs)])
    THEN TrimEnd(SubSeq(cs, 1, Len(cs) - 1))
    ELSE cs

RECURSIVE DigitsToNat(_)
DigitsToNat(cs) ==
  IF cs = <<>> THEN 0
  ELSE 10 * DigitsToNat(SubSeq(cs, 1, Len(cs) - 1)) + DigitVal(cs[Len(cs)])

AllDigits(cs) == cs # <<>> /\ \A i \in 1..Len(cs) : IsDigit(cs[i])

InfinityString == <<"I", "n", "f", "i", "n", "i", "t", "y">>

NaNString == <<"N", "a", "N">>

\* Number(string): StringToNumber of the language, for decimal integer
\* literals and Infinity: white space is trimmed, the empty string is 0, one
\* sign is allowed, anything else is NaN
StringToNumber(cs) ==
  LET t == TrimEnd(TrimStart(cs)) IN
    IF t = <<>> THEN Finite(0)
    ELSE IF t = InfinityString \/ t = <<"+">> \o InfinityString THEN Infinity
    ELSE IF t = <<"-">> \o InfinityString THEN NegInfinity
    ELSE IF Head(t) = "-" /\ AllDigits(Tail(t)) THEN Finite(0 - DigitsToNat(Tail(t)))
    ELSE IF Head(t) = "+" /\ AllDigits(Tail(t)) THEN Finite(DigitsToNat(Tail(t)))
    ELSE IF AllDigits(t) THEN Finite(DigitsToNat(t))
    ELSE NaN

\* Number(value)
Number(v) ==
  CASE v.t = "undefined" -> NaN
    [] v.t = "null" -> Finite(0)
    [] v.t = "number" -> v.n
    [] v.t = "string" -> StringToNumber(v.s)

RECURSIVE NatToString(_)
NatToString(k) ==
  IF k < 10 THEN <<Digits[k + 1]>>
  ELSE NatToString(k \div 10) \o <<Digits[(k % 10) + 1]>>

\* Number.prototype.toString, for the integers, the infinities and NaN
NumberToString(x) ==
  IF isNaN(x) THEN NaNString
  ELSE IF x = Infinity THEN InfinityString
  ELSE IF x = NegInfinity THEN <<"-">> \o InfinityString
  ELSE IF x.num < 0 THEN <<"-">> \o NatToString(0 - x.num)
  ELSE NatToString(x.num)

UndefinedString == <<"u", "n", "d", "e", "f", "i", "n", "e", "d">>

NullString == <<"n", "u", "l", "l">>

\* String(value)
String(v) ==
  CASE v.t = "undefined" -> UndefinedString
    [] v.t = "null" -> NullString
    [] v.t = "number" -> NumberToString(v.n)
    [] v.t = "string" -> v.s

\* ToBoolean(value), as the || operator applies it
Truthy(v) ==
  CASE v.t = "undefined" -> FALSE
    [] v.t = "null" -> FALSE
    [] v.t = "number" -> ~isNaN(v.n) /\ v.n.num # 0
    [] v.t = "string" -> v.s # <<>>

\* value === undefined || value === null || value === ''
IsEmptyValue(v) ==
  v.t = "undefined" \/ v.t = "null" \/ (v.t = "string" /\ v.s = <<>>)

----------------------------------------------------------------------------
(* Rows and datasets *)

ColumnNames == {"a", "b"}

\* the order in which the keys of a row object were inserted
ColumnOrder == <<"a", "b">>

\* row[column]; a key the row does not have reads as undefined
Get(row, column) == IF column \in DOMAIN row THEN row[column] ELSE Undefined

\* Object.keys(row): a blank cell leaves no key in its row
ObjectKeys(row) ==
  SelectSeq(ColumnOrder, LAMBDA c : Get(row, c).t # "undefined")

\* the rows the analysis panel's datasets are made of
AnalysisRows ==
  { [a |-> Num(3), b |-> Str(<<"x">>)],
    [a |-> Str(<<>>), b |-> Str(<<"7">>)],
    [a |-> Undefined, b |-> Num(0 - 2)],
    [a |-> Str(<<"a", "b", "c">>), b |-> Null] }

\* the rows the chart viewer's datasets are made of
ChartRows ==
  { [a |-> Num(1), b |-> Str(<<"x">>)],
    [a |-> Num(2), b |-> Str(<<"y">>)],
    [a |-> Num(3), b |-> Str(<<"x">>)],
    [a |-> Num(0), b |-> Undefined],
    [a |-> Str(<<"a", "b", "c">>), b |-> Str(<<"x">>)],
    [a |-> Num(4), b |-> Str(<<"c", "o", "n", "s", "t", "r", "u", "c", "t", "o", "r">>)] }

SeqsUpTo(S, k) == UNION { [1..m -> S] : m \in 0..k }

AnalysisDatasets == SeqsUpTo(AnalysisRows, MaxRows)

\* Datasets whose column a holds integers and the texts that Number(...)
\* parses as the two infinities
ExtremeRows ==
  { [a |-> Str(InfinityString), b |-> Num(1)],
    [a |-> Str(<<"-">> \o InfinityString), b |-> Num(1)],
    [a |-> Num(3), b |-> Num(1)],
    [a |-> Num(5), b |-> Num(1)] }

ExtremeDatasets == SeqsUpTo(ExtremeRows, MaxExtremeRows)

\* Datasets for the data table: numbers in column a, text in column b, the
\* three kinds of row in turn
TableRowKinds ==
  << [a |-> Num(2), b |-> Str(<<"y">>)],
     [a |-> Num(1), b |-> Str(<<"x">>)],
     [a |-> Num(3), b |-> Str(<<"x">>)] >>

TableDataset(n) == [i \in 1..n |-> TableRowKinds[((i - 1) % 3) + 1]]

\* Datasets with many distinct text values in column a: m rows that hold the
\* first m letters, then up to MaxRepeats rows that repeat the first or the
\* last of them or hold a blank, a null, the number 7 or the text "7"
KeyLetters == <<"a", "b", "c", "d", "e", "f", "g", "h", "i", "j", "k", "l", "m", "n">>

FrequencyRow(v) == [a |-> v, b |-> Num(1)]

FirstRows(m) == [i \in 1..m |-> FrequencyRow(Str(<<KeyLetters[i]>>))]

RepeatValues(m) ==
  {Str(<<KeyLetters[i]>>) : i \in {1, m} \cap 1..m}
    \cup {Str(<<>>), Null, Num(7), Str(<<"7">>)}

FrequencyDataset(m, later) ==
  FirstRows(m) \o [i \in 1..Len(later) |-> FrequencyRow(later[i])]

ChartDatasets == SeqsUpTo(ChartRows, MaxChartRows)

Min(x, y) == IF x <= y THEN x ELSE y

----------------------------------------------------------------------------
(* Column classification: AnalysisPanel.tsx 36-44, ChartViewer.tsx 42-50 *)

\* mutant of Sample: the whole column is read, not a sample
SampleAll(d) == d

\* data.slice(0, 5)
Sample(d) == SubSeq(d, 1, Min(SampleSize, Len(d)))

\* mutant of SampleValueOk: the three tests for an empty value are left out
SampleValueOkNoEmpty(value) == value.t = "number" \/ ~isNaN(Number(value))

\* mutant of SampleValueOk: only typeof value === 'number' counts
SampleValueOkNumbersOnly(value) == value.t = "number"

\* the predicate of .every(...)
SampleValueOk(value) ==
  IsEmptyValue(value) \/ value.t = "number" \/ ~isNaN(Number(value))

isNumericColumn(d, column) ==
  IF Len(d) = 0 THEN FALSE
  ELSE \A i \in 1..Len(Sample(d)) : SampleValueOk(Get(Sample(d)[i], column))

\* Object.keys(data[0])
columns(d) == IF Len(d) = 0 THEN <<>> ELSE ObjectKeys(d[1])

numericColumns(d) == SelectSeq(columns(d), LAMBDA c : isNumericColumn(d, c))

categoricalColumns(d) == SelectSeq(columns(d), LAMBDA c : ~isNumericColumn(d, c))

----------------------------------------------------------------------------
(* Column statistics: AnalysisPanel.tsx 71-163 *)

\* the sentinel: columnStats is null
NoStats == [type |-> "null"]

\* data.map(row => Number(row[selectedColumn])).filter(val => !isNaN(val))
RECURSIVE validValuesOf(_, _)
validValuesOf(d, column) ==
  IF d = <<>> THEN <<>>
  ELSE LET val == Number(Get(Head(d), column)) IN
         (IF isNaN(val) THEN <<>> ELSE <<val>>) \o validValuesOf(Tail(d), column)

\* values.reduce((acc, val) => acc + val, 0)
RECURSIVE SumSeq(_)
SumSeq(values) ==
  IF values = <<>> THEN Finite(0)
  ELSE FracAdd(SumSeq(SubSeq(values, 1, Len(values) - 1)), values[Len(values)])

\* insertion of val into an ascending sequence, before the first element b
\* for which the comparator's val - b is negative (a difference that is NaN
\* counts as 0), that is after the elements equal to it
RECURSIVE InsertAsc(_, _)
InsertAsc(sorted, val) ==
  IF sorted = <<>> THEN <<val>>
  ELSE IF FracLess(FracSub(val, Head(sorted)), Finite(0)) THEN <<val>> \o sorted
  ELSE <<Head(sorted)>> \o InsertAsc(Tail(sorted), val)

\* mutant of SortAsc: the values are left in dataset order
SortAscUnsorted(values) == values

\* [...validValues].sort((a, b) => a - b)
RECURSIVE SortAsc(_)
SortAsc(values) ==
  IF values = <<>> THEN <<>>
  ELSE InsertAsc(SortAsc(SubSeq(values, 1, Len(values) - 1)), values[Len(values)])

\* Math.min(...values)
RECURSIVE MathMin(_)
MathMin(values) ==
  IF Len(values) = 1 THEN values[1]
  ELSE LET m == MathMin(Tail(values)) IN
         IF isNaN(Head(values)) \/ isNaN(m) THEN NaN
         ELSE IF FracLess(Head(values), m) THEN Head(values) ELSE m

\* Math.max(...values)
RECURSIVE MathMax(_)
MathMax(values) ==
  IF Len(values) = 1 THEN values[1]
  ELSE LET m == MathMax(Tail(values)) IN
         IF isNaN(Head(values)) \/ isNaN(m) THEN NaN
         ELSE IF FracLess(m, Head(values)) THEN Head(values) ELSE m

\* mutant of medianOf: the element at floor(length / 2) for every length
medianOfUpperMiddle(sortedValues) == sortedValues[(Len(sortedValues) \div 2) + 1]

\* the median of the sorted values; arrays are 0-indexed, sequences 1-indexed
medianOf(sortedValues) ==
  IF Len(sortedValues) % 2 = 0
    THEN FracDivInt(FracAdd(sortedValues[(Len(sortedValues) \div 2 - 1) + 1],
                            sortedValues[(Len(sortedValues) \div 2) + 1]), 2)
    ELSE sortedValues[(Len(sortedValues) \div 2) + 1]

\* validValues.map(val => Math.pow(val - mean, 2))
squaredDiffsOf(values, mean) ==
  [i \in 1..Len(values) |->
     FracMul(FracSub(values[i], mean), FracSub(values[i], mean))]

\* squaredDiffs.reduce((acc, val) => acc + val, 0)
RECURSIVE FracSum(_)
FracSum(fs) ==
  IF fs = <<>> THEN Finite(0)
  ELSE FracAdd(FracSum(SubSeq(fs, 1, Len(fs) - 1)), fs[Len(fs)])

\* mutant of q1Of: the element at floor(length * 0.5)
q1OfMiddle(sortedValues) == sortedValues[(Len(sortedValues) \div 2) + 1]

\* sortedValues[Math.floor(sortedValues.length * 0.25)]
q1Of(sortedValues) == sortedValues[(Len(sortedValues) \div 4) + 1]

\* sortedValues[Math.floor(sortedValues.length * 0.75)]
q3Of(sortedValues) == sortedValues[((3 * Len(sortedValues)) \div 4) + 1]

\* the numeric branch
numericStats(d, column) ==
  LET validValues == validValuesOf(d, column) IN
    IF Len(validValues) = 0 THEN NoStats
    ELSE
      LET sum == SumSeq(validValues)
          mean == FracDivInt(sum, Len(validValues))
          sortedValues == SortAsc(validValues)
          variance == FracDivInt(FracSum(squaredDiffsOf(validValues, mean)),
                                 Len(validValues))
          min == MathMin(validValues)
          max == MathMax(validValues)
      IN [type |-> "numeric",
          count |-> Len(validValues),
          emptyCount |-> Len(d) - Len(validValues),
          min |-> min,
          max |-> max,
          range |-> FracSub(max, min),
          sum |-> sum,
          mean |-> mean,
          median |-> medianOf(sortedValues),
          variance |-> variance,
          stdDev |-> Sqrt(variance),
          q1 |-> q1Of(sortedValues),
          q3 |-> q3Of(sortedValues)]

\* valueMap.set(strValue, (valueMap.get(strValue) || 0) + 1): a Map keeps its
\* keys in insertion order; it is the sequence of its [key, count] entries
MapIncrement(valueMap, strValue) ==
  IF \E i \in 1..Len(valueMap) : valueMap[i].key = strValue
    THEN [i \in 1..Len(valueMap) |->
            IF valueMap[i].key = strValue
              THEN [key |-> strValue, count |-> valueMap[i].count + 1]
              ELSE valueMap[i]]
    ELSE Append(valueMap, [key |-> strValue, count |-> 1])

\* mutant of countValues: the key is the value with its type, not its string
RECURSIVE countValuesByTypedValue(_, _, _)
countValuesByTypedValue(d, column, k) ==
  IF k = 0 THEN [valueMap |-> <<>>, emptyCount |-> 0]
  ELSE LET acc == countValuesByTypedValue(d, column, k - 1)
           value == Get(d[k], column)
       IN IF IsEmptyValue(value)
            THEN [valueMap |-> acc.valueMap, emptyCount |-> acc.emptyCount + 1]
            ELSE [valueMap |-> MapIncrement(acc.valueMap, <<value.t>> \o String(value)),
                  emptyCount |-> acc.emptyCount]

\* the data.forEach of the categorical branch, over the first k rows
RECURSIVE countValues(_, _, _)
countValues(d, column, k) ==
  IF k = 0 THEN [valueMap |-> <<>>, emptyCount |-> 0]
  ELSE LET acc == countValues(d, column, k - 1)
           value == Get(d[k], column)
       IN IF IsEmptyValue(value)
            THEN [valueMap |-> acc.valueMap, emptyCount |-> acc.emptyCount + 1]
            ELSE [valueMap |-> MapIncrement(acc.valueMap, String(value)),
                  emptyCount |-> acc.emptyCount]

\* mutant of InsertDesc: an entry goes before the entries of the same count
RECURSIVE InsertDescTiesFirst(_, _)
InsertDescTiesFirst(sorted, e) ==
  IF sorted = <<>> THEN <<e>>
  ELSE IF e.count >= Head(sorted).count THEN <<e>> \o sorted
  ELSE <<Head(sorted)>> \o InsertDescTiesFirst(Tail(sorted), e)

\* insertion of e into a sequence sorted by descending count, after the
\* entries of the same count (Array.prototype.sort is stable)
RECURSIVE InsertDesc(_, _)
InsertDesc(sorted, e) ==
  IF sorted = <<>> THEN <<e>>
  ELSE IF e.count > Head(sorted).count THEN <<e>> \o sorted
  ELSE <<Head(sorted)>> \o InsertDesc(Tail(sorted), e)

\* [...valueMap.entries()].sort((a, b) => b[1] - a[1])
RECURSIVE SortDesc(_)
SortDesc(entries) ==
  IF entries = <<>> THEN <<>>
  ELSE InsertDesc(SortDesc(SubSeq(entries, 1, Len(entries) - 1)), entries[Len(entries)])

\* mutant of modeOf: >= in the place of >, the last of the tied keys wins
RECURSIVE modeOfLastWins(_, _)
modeOfLastWins(valueMap, k) ==
  IF k = 0 THEN [mode |-> <<>>, modeFrequency |-> 0]
  ELSE LET acc == modeOfLastWins(valueMap, k - 1) IN
         IF valueMap[k].count >= acc.modeFrequency
           THEN [mode |-> valueMap[k].key, modeFrequency |-> valueMap[k].count]
           ELSE acc

\* the valueMap.forEach that finds the mode, over the first k entries
RECURSIVE modeOf(_, _)
modeOf(valueMap, k) ==
  IF k = 0 THEN [mode |-> <<>>, modeFrequency |-> 0]
  ELSE LET acc == modeOf(valueMap, k - 1) IN
         IF valueMap[k].count > acc.modeFrequency
           THEN [mode |-> valueMap[k].key, modeFrequency |-> valueMap[k].count]
           ELSE acc

\* mutant of categoricalStats: count is the number of distinct keys
categoricalStatsCountsKeys(d, column) ==
  LET counted == countValues(d, column, Len(d))
      sorted == SortDesc(counted.valueMap)
      m == modeOf(counted.valueMap, Len(counted.valueMap))
  IN [type |-> "categorical",
      count |-> Len(counted.valueMap),
      emptyCount |-> counted.emptyCount,
      uniqueCount |-> Len(counted.valueMap),
      mode |-> m.mode,
      modeFrequency |-> m.modeFrequency,
      frequencies |-> SubSeq(sorted, 1, Min(TopN, Len(sorted)))]

\* mutant of categoricalStats: frequencies is not cut to its first entries
categoricalStatsAllFrequencies(d, column) ==
  LET counted == countValues(d, column, Len(d))
      sorted == SortDesc(counted.valueMap)
      m == modeOf(counted.valueMap, Len(counted.valueMap))
  IN [type |-> "categorical",
      count |-> Len(d) - counted.emptyCount,
      emptyCount |-> counted.emptyCount,
      uniqueCount |-> Len(counted.valueMap),
      mode |-> m.mode,
      modeFrequency |-> m.modeFrequency,
      frequencies |-> sorted]

\* the categorical branch
categoricalStats(d, column) ==
  LET counted == countValues(d, column, Len(d))
      sorted == SortDesc(counted.valueMap)
      m == modeOf(counted.valueMap, Len(counted.valueMap))
  IN [type |-> "categorical",
      count |-> Len(d) - counted.emptyCount,
      emptyCount |-> counted.emptyCount,
      uniqueCount |-> Len(counted.valueMap),
      mode |-> m.mode,
      modeFrequency |-> m.modeFrequency,
      frequencies |-> SubSeq(sorted, 1, Min(TopN, Len(sorted)))]

\* mutant of columnStatsOf: the test for an empty dataset is left out
columnStatsOfNoEmptyCheck(d, column) ==
  IF column = "" THEN NoStats
  ELSE IF isNumericColumn(d, column) THEN numericStats(d, column)
  ELSE categoricalStats(d, column)

\* the useMemo that computes columnStats
columnStatsOf(d, column) ==
  IF Len(d) = 0 \/ column = "" THEN NoStats
  ELSE IF isNumericColumn(d, column) THEN numericStats(d, column)
  ELSE categoricalStats(d, column)

\* what the panel shows in the current state
columnStats == columnStatsOf(data, selectedColumn)

----------------------------------------------------------------------------
(* The analysis panel *)

\* useState('') followed by the useMemo that selects numericColumns[0]
defaultSelectedColumn(d) ==
  IF Len(numericColumns(d)) > 0 THEN numericColumns(d)[1] ELSE ""

InitAnalysis ==
  /\ data \in AnalysisDatasets
  /\ selectedColumn = defaultSelectedColumn(data)
  /\ chartType = "bar"
  /\ xAxisField = ""
  /\ yAxisFields = <<>>
  /\ TableCreated
  /\ UploaderCreated
  /\ PageShows("analysis", data)

\* columnStats is a function of the dataset and of the column name it is
\* given: the name is any of ColumnNames, also one that the first row has no
\* key for (the Select of the panel lists the keys of the first row)
setSelectedColumn(column) ==
  /\ selectedColumn' = column
  /\ UNCHANGED <<data, chartType, xAxisField, yAxisFields, tableVars, uploaderVars, homeVars>>

NextAnalysis == \E column \in ColumnNames : setSelectedColumn(column)

SpecAnalysis == InitAnalysis /\ [][NextAnalysis]_vars

\* the panel mounted on a dataset with infinite values
InitExtremes ==
  /\ data \in ExtremeDatasets
  /\ selectedColumn = defaultSelectedColumn(data)
  /\ chartType = "bar"
  /\ xAxisField = ""
  /\ yAxisFields = <<>>
  /\ TableCreated
  /\ UploaderCreated
  /\ PageShows("analysis", data)

SpecExtremes == InitExtremes /\ [][NextAnalysis]_vars

\* the panel mounted on a dataset of many distinct values
InitFrequencies ==
  /\ \E m \in 0..MaxKeys :
       \E later \in SeqsUpTo(RepeatValues(m), MaxRepeats) :
         data = FrequencyDataset(m, later)
  /\ selectedColumn = defaultSelectedColumn(data)
  /\ chartType = "bar"
  /\ xAxisField = ""
  /\ yAxisFields = <<>>
  /\ TableCreated
  /\ UploaderCreated
  /\ PageShows("analysis", data)

SpecFrequencies == InitFrequencies /\ [][NextAnalysis]_vars

----------------------------------------------------------------------------
(* Chart aggregation: ChartViewer.tsx 71-127 *)

\* obj[k] = v on an object held as a function from its keys
Put(obj, k, v) == [c \in (DOMAIN obj) \cup {k} |-> IF c = k THEN v ELSE obj[c]]

\* String(item[xAxisField] || 'undefined')
xValueOf(item, xField) ==
  LET v == Get(item, xField) IN
    String(IF Truthy(v) THEN v ELSE Str(UndefinedString))

\* Number(item[field]) || 0
numberOrZero(item, field) ==
  LET v == Number(Get(item, field)) IN
    IF isNaN(v) \/ v = Finite(0) THEN Finite(0) ELSE v

\* the names of the properties an object literal inherits from
\* Object.prototype; each holds a function or, for __proto__, the prototype
\* itself: a truthy value
InheritedKeys ==
  { <<"c", "o", "n", "s", "t", "r", "u", "c", "t", "o", "r">>,
    <<"t", "o", "S", "t", "r", "i", "n", "g">>,
    <<"t", "o", "L", "o", "c", "a", "l", "e", "S", "t", "r", "i", "n", "g">>,
    <<"v", "a", "l", "u", "e", "O", "f">>,
    <<"h", "a", "s", "O", "w", "n", "P", "r", "o", "p", "e", "r", "t", "y">>,
    <<"i", "s", "P", "r", "o", "t", "o", "t", "y", "p", "e", "O", "f">>,
    <<"p", "r", "o", "p", "e", "r", "t", "y", "I", "s",
      "E", "n", "u", "m", "e", "r", "a", "b", "l", "e">>,
    <<"_", "_", "p", "r", "o", "t", "o", "_", "_">>,
    <<"_", "_", "d", "e", "f", "i", "n", "e", "G", "e", "t", "t", "e", "r", "_", "_">>,
    <<"_", "_", "d", "e", "f", "i", "n", "e", "S", "e", "t", "t", "e", "r", "_", "_">>,
    <<"_", "_", "l", "o", "o", "k", "u", "p", "G", "e", "t", "t", "e", "r", "_", "_">>,
    <<"_", "_", "l", "o", "o", "k", "u", "p", "S", "e", "t", "t", "e", "r", "_", "_">> }

\* groupedData is the sequence of its own [key, row] properties in the order
\* of their creation.  !groupedData[xValue] reads through the prototype
\* chain: the value is found (and truthy) for a property the loop created
\* and for an inherited one.  For an inherited name the loop creates no
\* group, and the += of the row writes to the inherited object, which is no
\* property of groupedData: the row leaves groupedData as it is.
HasKey(groupedData, xValue) ==
  \/ \E i \in 1..Len(groupedData) : groupedData[i].key = xValue
  \/ xValue \in InheritedKeys

\* groupedData[xValue][field] = 0 for each y-field, in order
RECURSIVE initFields(_, _)
initFields(row, yFields) ==
  IF yFields = <<>> THEN row
  ELSE initFields(Put(row, Head(yFields), Num(0)), Tail(yFields))

\* mutant of sumFields: = in the place of +=
RECURSIVE sumFieldsAssign(_, _, _)
sumFieldsAssign(row, item, yFields) ==
  IF yFields = <<>> THEN row
  ELSE sumFieldsAssign(
         Put(row, Head(yFields), NumValue(numberOrZero(item, Head(yFields)))),
         item, Tail(yFields))

\* groupedData[xValue][field] += Number(item[field]) || 0 for each y-field
RECURSIVE sumFields(_, _, _)
sumFields(row, item, yFields) ==
  IF yFields = <<>> THEN row
  ELSE sumFields(
         Put(row, Head(yFields),
             NumValue(FracAdd(row[Head(yFields)].n, numberOrZero(item, Head(yFields))))),
         item, Tail(yFields))

\* one pass of the data.forEach of the bar/line branch
groupBarItem(groupedData, item, xField, yFields) ==
  LET xValue == xValueOf(item, xField)
      created ==
        IF HasKey(groupedData, xValue) THEN groupedData
        ELSE Append(groupedData,
               [key |-> xValue,
                row |-> initFields([c \in {xField} |-> Str(xValue)], yFields)])
  IN [i \in 1..Len(created) |->
        IF created[i].key = xValue
          THEN [key |-> xValue, row |-> sumFields(created[i].row, item, yFields)]
          ELSE created[i]]

\* the data.forEach of the bar/line branch over the first k rows
RECURSIVE groupBar(_, _, _, _)
groupBar(d, xField, yFields, k) ==
  IF k = 0 THEN <<>>
  ELSE groupBarItem(groupBar(d, xField, yFields, k - 1), d[k], xField, yFields)

\* one pass of the data.forEach of the pie branch
groupPieItem(groupedData, item, xField, yField) ==
  LET xValue == xValueOf(item, xField)
      created ==
        IF HasKey(groupedData, xValue) THEN groupedData
        ELSE Append(groupedData,
               [key |-> xValue, row |-> [name |-> Str(xValue), value |-> Num(0)]])
  IN [i \in 1..Len(created) |->
        IF created[i].key = xValue
          THEN [key |-> xValue,
                row |-> [name |-> created[i].row.name,
                         value |-> NumValue(FracAdd(created[i].row.value.n,
                                                    numberOrZero(item, yField)))]]
          ELSE created[i]]

\* the data.forEach of the pie branch over the first k rows
RECURSIVE groupPie(_, _, _, _)
groupPie(d, xField, yField, k) ==
  IF k = 0 THEN <<>>
  ELSE groupPieItem(groupPie(d, xField, yField, k - 1), d[k], xField, yField)

\* a property key that is an array index: a canonical decimal numeral
\* (numerals of ten digits or more are not among the modelled x-values)
IsArrayIndex(key) ==
  /\ AllDigits(key)
  /\ Len(key) = 1 \/ Head(key) # "0"
  /\ Len(key) < 10

\* insertion of e among entries in ascending order of their integer keys
RECURSIVE InsertByIndex(_, _)
InsertByIndex(sorted, e) ==
  IF sorted = <<>> THEN <<e>>
  ELSE IF DigitsToNat(e.key) < DigitsToNat(Head(sorted).key) THEN <<e>> \o sorted
  ELSE <<Head(sorted)>> \o InsertByIndex(Tail(sorted), e)

RECURSIVE SortByIndex(_)
SortByIndex(entries) ==
  IF entries = <<>> THEN <<>>
  ELSE InsertByIndex(SortByIndex(SubSeq(entries, 1, Len(entries) - 1)),
                     entries[Len(entries)])

\* the own properties of an object in the order the language enumerates
\* them: array-index keys in ascending numeric order, then the other keys in
\* the order of their creation
OwnProperties(groupedData) ==
  SortByIndex(SelectSeq(groupedData, LAMBDA e : IsArrayIndex(e.key)))
    \o SelectSeq(groupedData, LAMBDA e : ~IsArrayIndex(e.key))

\* mutant of chartGroupsOf: the test for an unset x-field is left out
chartGroupsOfNoXCheck(d, kind, xField, yFields) ==
  IF Len(d) = 0 \/ Len(yFields) = 0 THEN <<>>
  ELSE IF kind = "bar" \/ kind = "line"
    THEN OwnProperties(groupBar(d, xField, yFields, Len(d)))
  ELSE IF kind = "pie"
    THEN OwnProperties(groupPie(d, xField, yFields[1], Len(d)))
  ELSE <<>>

\* mutant of chartGroupsOf: the pie sums the last y-field
chartGroupsOfPieLastField(d, kind, xField, yFields) ==
  IF Len(d) = 0 \/ xField = "" \/ Len(yFields) = 0 THEN <<>>
  ELSE IF kind = "bar" \/ kind = "line"
    THEN OwnProperties(groupBar(d, xField, yFields, Len(d)))
  ELSE IF kind = "pie"
    THEN OwnProperties(groupPie(d, xField, yFields[Len(yFields)], Len(d)))
  ELSE <<>>

\* the properties that Object.values(groupedData) reads, in its order
chartGroupsOf(d, kind, xField, yFields) ==
  IF Len(d) = 0 \/ xField = "" \/ Len(yFields) = 0 THEN <<>>
  ELSE IF kind = "bar" \/ kind = "line"
    THEN OwnProperties(groupBar(d, xField, yFields, Len(d)))
  ELSE IF kind = "pie"
    THEN OwnProperties(groupPie(d, xField, yFields[1], Len(d)))
  ELSE <<>>

\* Object.values(groupedData)
chartDataOf(d, kind, xField, yFields) ==
  LET groups == chartGroupsOf(d, kind, xField, yFields) IN
    [i \in 1..Len(groups) |-> groups[i].row]

\* what the viewer plots in the current state
chartData == chartDataOf(data, chartType, xAxisField, yAxisFields)

chartGroups == chartGroupsOf(data, chartType, xAxisField, yAxisFields)

----------------------------------------------------------------------------
(* The chart viewer *)

ChartKinds == {"bar", "line", "pie"}

\* useState('') / useState([]) followed by the useMemo that selects
\* categoricalColumns[0] and [numericColumns[0]]
HasDefaults(d) == Len(categoricalColumns(d)) > 0 /\ Len(numericColumns(d)) > 0

InitChart ==
  /\ data \in ChartDatasets
  /\ selectedColumn = ""
  /\ chartType = "bar"
  /\ xAxisField = IF HasDefaults(data) THEN categoricalColumns(data)[1] ELSE ""
  /\ yAxisFields = IF HasDefaults(data) THEN <<numericColumns(data)[1]>> ELSE <<>>
  /\ TableCreated
  /\ UploaderCreated
  /\ PageShows("charts", data)

\* the viewer renders its controls only for a non-empty dataset (it returns
\* "No data available for visualization" otherwise)
ControlsShown == activeTab = "charts" /\ Len(data) > 0

setChartType(kind) ==
  /\ ControlsShown
  /\ chartType' = kind
  /\ UNCHANGED <<data, selectedColumn, xAxisField, yAxisFields, tableVars, uploaderVars, homeVars>>

\* chartData is a function of the dataset, the x-field, the y-fields and the
\* chart kind: the fields are any of ColumnNames (the viewer lists the keys of
\* the first row for x and the numeric ones among them for y)
setXAxisField(column) ==
  /\ ControlsShown
  /\ xAxisField' = column
  /\ UNCHANGED <<data, selectedColumn, chartType, yAxisFields, tableVars, uploaderVars, homeVars>>

\* yAxisFields.includes(field)
Includes(fields, field) == \E i \in 1..Len(fields) : fields[i] = field

\* mutant of toggleYAxisField: the only selected field can be removed too
toggleYAxisFieldRemovesLast(field) ==
  /\ ControlsShown
  /\ yAxisFields' =
       IF Includes(yAxisFields, field)
         THEN SelectSeq(yAxisFields, LAMBDA f : f # field)
         ELSE Append(yAxisFields, field)
  /\ UNCHANGED <<data, selectedColumn, chartType, xAxisField, tableVars, uploaderVars, homeVars>>

toggleYAxisField(field) ==
  /\ ControlsShown
  /\ yAxisFields' =
       IF Includes(yAxisFields, field)
         THEN IF Len(yAxisFields) > 1
                THEN SelectSeq(yAxisFields, LAMBDA f : f # field)
                ELSE yAxisFields
         ELSE Append(yAxisFields, field)
  /\ UNCHANGED <<data, selectedColumn, chartType, xAxisField, tableVars, uploaderVars, homeVars>>

\* mutant of pieNotice: the note is shown for a pie of one y-field too
pieNoticeForOneField ==
  ControlsShown /\ chartType = "pie" /\ Len(yAxisFields) > 0

\* the note "Pie chart displays only the first selected value field." is
\* rendered
pieNotice ==
  ControlsShown /\ chartType = "pie" /\ Len(yAxisFields) > 1

NextChart ==
  \/ \E kind \in ChartKinds : setChartType(kind)
  \/ \E column \in ColumnNames : setXAxisField(column)
  \/ \E field \in ColumnNames : toggleYAxisField(field)

SpecChart == InitChart /\ [][NextChart]_vars

----------------------------------------------------------------------------
(* The data table: DataViewer.tsx *)

UpperCaseLetters ==
  <<"A", "B", "C", "D", "E", "F", "G", "H", "I", "J", "K", "L", "M",
    "N", "O", "P", "Q", "R", "S", "T", "U", "V", "W", "X", "Y", "Z">>

LowerCaseLetters ==
  <<"a", "b", "c", "d", "e", "f", "g", "h", "i", "j", "k", "l", "m",
    "n", "o", "p", "q", "r", "s", "t", "u", "v", "w", "x", "y", "z">>

\* String.prototype.toLowerCase, for the letters A to Z
ToLowerCase(cs) ==
  [i \in 1..Len(cs) |->
     IF \E k \in 1..Len(UpperCaseLetters) : UpperCaseLetters[k] = cs[i]
       THEN LowerCaseLetters[CHOOSE k \in 1..Len(UpperCaseLetters) :
                               UpperCaseLetters[k] = cs[i]]
       ELSE cs[i]]

\* String.prototype.includes
StringIncludes(cs, part) ==
  \E i \in 0..(Len(cs) - Len(part)) : SubSeq(cs, i + 1, i + Len(part)) = part

\* the order of the characters in a comparison by localeCompare: the
\* hyphen, the digits, the letters (lower case only: both strings are
\* lower-cased first)
CollationOrder == <<"-">> \o Digits \o LowerCaseLetters

CollationRank(ch) ==
  IF \E k \in 1..Len(CollationOrder) : CollationOrder[k] = ch
    THEN CHOOSE k \in 1..Len(CollationOrder) : CollationOrder[k] = ch
    ELSE 0

\* strA.localeCompare(strB): negative, 0 or positive
RECURSIVE LocaleCompare(_, _)
LocaleCompare(strA, strB) ==
  IF strA = <<>> /\ strB = <<>> THEN 0
  ELSE IF strA = <<>> THEN 0 - 1
  ELSE IF strB = <<>> THEN 1
  ELSE IF CollationRank(Head(strA)) < CollationRank(Head(strB)) THEN 0 - 1
  ELSE IF CollationRank(Head(strA)) > CollationRank(Head(strB)) THEN 1
  ELSE LocaleCompare(Tail(strA), Tail(strB))

\* the sign of a number; NaN counts as 0 for a comparator
SignOf(x) == IF isNaN(x) THEN 0 ELSE IF x.num < 0 THEN 0 - 1 ELSE IF x.num > 0 THEN 1 ELSE 0

\* the comparator of handleSort, for the direction it reads
CompareRows(rowA, rowB, column, direction) ==
  LET valueA == Get(rowA, column)
      valueB == Get(rowB, column)
      strA == ToLowerCase(String(valueA))
      strB == ToLowerCase(String(valueB))
  IN IF valueA.t = "number" /\ valueB.t = "number"
       THEN IF direction = "asc" THEN SignOf(FracSub(valueA.n, valueB.n))
            ELSE SignOf(FracSub(valueB.n, valueA.n))
       ELSE IF direction = "asc" THEN LocaleCompare(strA, strB)
            ELSE LocaleCompare(strB, strA)

\* insertion of row into a sorted sequence, before the first row it comes
\* before (Array.prototype.sort is stable)
RECURSIVE InsertRow(_, _, _, _)
InsertRow(sorted, row, column, direction) ==
  IF sorted = <<>> THEN <<row>>
  ELSE IF CompareRows(row, Head(sorted), column, direction) < 0 THEN <<row>> \o sorted
  ELSE <<Head(sorted)>> \o InsertRow(Tail(sorted), row, column, direction)

\* [...filteredData].sort(comparator)
RECURSIVE SortRows(_, _, _)
SortRows(rows, column, direction) ==
  IF rows = <<>> THEN <<>>
  ELSE InsertRow(SortRows(SubSeq(rows, 1, Len(rows) - 1), column, direction),
                 rows[Len(rows)], column, direction)

\* Object.values(row)
ObjectValues(row) ==
  [i \in 1..Len(ObjectKeys(row)) |-> Get(row, ObjectKeys(row)[i])]

\* the search effect: the rows filteredData is set to
searchResult(d, term) ==
  LET RowMatches(row) ==
        \E i \in 1..Len(ObjectValues(row)) :
          StringIncludes(ToLowerCase(String(ObjectValues(row)[i])), ToLowerCase(term))
  IN IF term = <<>> THEN d ELSE SelectSeq(d, RowMatches)

\* Math.ceil(filteredData.length / rowsPerPage)
totalPages == (Len(filteredData) + rowsPerPage - 1) \div rowsPerPage

Max(x, y) == IF x > y THEN x ELSE y

\* Array.prototype.slice(start, end); a negative index counts from the end
Slice(seq, start, end) ==
  LET SliceIndex(k) == IF k < 0 THEN Max(Len(seq) + k, 0) ELSE Min(k, Len(seq))
  IN SubSeq(seq, SliceIndex(start) + 1, SliceIndex(end))

\* the rows the table displays
paginatedData ==
  Slice(filteredData, (currentPage - 1) * rowsPerPage, currentPage * rowsPerPage)

\* the terms typed in the search box
SearchTerms == {<<>>, <<"X">>, <<"q">>}

\* the items of the rows-per-page Select
RowsPerPageOptions == {10, 25, 50, 100}

\* the analysis panel and the chart viewer are not mounted
PanelsCreated ==
  /\ selectedColumn = ""
  /\ chartType = "bar"
  /\ xAxisField = ""
  /\ yAxisFields = <<>>

\* the table mounted on a dataset: the two effects have run
InitTable ==
  /\ \E n \in 0..MaxTableRows : data = TableDataset(n)
  /\ searchTerm = <<>>
  /\ filteredData = data
  /\ sortColumn = ""
  /\ sortDirection = "asc"
  /\ currentPage = 1
  /\ rowsPerPage = 10
  /\ selectedColumns = columns(data)
  /\ PanelsCreated
  /\ UploaderCreated
  /\ PageShows("data", data)

\* the table renders its controls only for a non-empty dataset (it returns
\* "No data available" otherwise)
TableShown == activeTab = "data" /\ Len(data) > 0

\* onChange of the search box, followed by the search effect
setSearchTerm(term) ==
  /\ TableShown
  /\ term # searchTerm
  /\ searchTerm' = term
  /\ filteredData' = searchResult(data, term)
  /\ currentPage' = 1
  /\ UNCHANGED <<sortColumn, sortDirection, rowsPerPage, selectedColumns>>
  /\ UNCHANGED <<data, selectedColumn, chartType, xAxisField, yAxisFields,
                 uploaderVars, homeVars>>

\* a click on the header of a visible column
handleSort(column) ==
  /\ TableShown
  /\ Includes(columns(data), column)
  /\ Includes(selectedColumns, column)
  /\ IF sortColumn = column
       THEN /\ sortDirection' = (IF sortDirection = "asc" THEN "desc" ELSE "asc")
            /\ sortColumn' = sortColumn
       ELSE /\ sortColumn' = column
            /\ sortDirection' = "asc"
  /\ filteredData' = SortRows(filteredData, column, sortDirection)
  /\ UNCHANGED <<searchTerm, currentPage, rowsPerPage, selectedColumns>>
  /\ UNCHANGED <<data, selectedColumn, chartType, xAxisField, yAxisFields,
                 uploaderVars, homeVars>>

\* a click on a button of the column selector
handleColumnSelectionChange(column) ==
  /\ TableShown
  /\ Includes(columns(data), column)
  /\ selectedColumns' =
       IF Includes(selectedColumns, column)
         THEN SelectSeq(selectedColumns, LAMBDA col : col # column)
         ELSE Append(selectedColumns, column)
  /\ UNCHANGED <<searchTerm, filteredData, sortColumn, sortDirection,
                 currentPage, rowsPerPage>>
  /\ UNCHANGED <<data, selectedColumn, chartType, xAxisField, yAxisFields,
                 uploaderVars, homeVars>>

\* onValueChange of the rows-per-page Select
setRowsPerPage(value) ==
  /\ TableShown
  /\ value # rowsPerPage
  /\ rowsPerPage' = value
  /\ UNCHANGED <<searchTerm, filteredData, sortColumn, sortDirection,
                 currentPage, selectedColumns>>
  /\ UNCHANGED <<data, selectedColumn, chartType, xAxisField, yAxisFields,
                 uploaderVars, homeVars>>

\* the pagination buttons set currentPage and nothing else
setCurrentPage(page) ==
  /\ TableShown
  /\ currentPage' = page
  /\ UNCHANGED <<searchTerm, filteredData, sortColumn, sortDirection,
                 rowsPerPage, selectedColumns>>
  /\ UNCHANGED <<data, selectedColumn, chartType, xAxisField, yAxisFields,
                 uploaderVars, homeVars>>

\* First and Prev are disabled on page 1, Next and Last on the last page
clickFirst == currentPage # 1 /\ setCurrentPage(1)

clickPrev == currentPage # 1 /\ setCurrentPage(Max(currentPage - 1, 1))

clickNext == currentPage # totalPages /\ setCurrentPage(Min(currentPage + 1, totalPages))

clickLast == currentPage # totalPages /\ setCurrentPage(totalPages)

NextTable ==
  \/ \E term \in SearchTerms : setSearchTerm(term)
  \/ \E column \in ColumnNames : handleSort(column)
  \/ \E column \in ColumnNames : handleColumnSelectionChange(column)
  \/ \E value \in RowsPerPageOptions : setRowsPerPage(value)
  \/ clickFirst
  \/ clickPrev
  \/ clickNext
  \/ clickLast

SpecTable == InitTable /\ [][NextTable]_vars

----------------------------------------------------------------------------
(* The uploader and the page: ExcelUploader.tsx, Home.tsx *)

\* The files a user submits: two workbooks, a file of an Excel type that
\* read() throws on, and a file of another type
Files == {"A", "B", "corrupt", "notes"}

\* file.type is one of the two Excel MIME types
IsExcelType(file) == file # "notes"

\* file.arrayBuffer() or read(arrayBuffer) throws
ReadThrows(file) == file = "corrupt"

\* utils.sheet_to_json(worksheet) of the first sheet: A holds a column of
\* numbers and a column of text, B two columns of numbers
sheetToJson(file) ==
  IF file = "A" THEN TableDataset(2) ELSE <<[a |-> Num(2), b |-> Num(5)]>>

ErrorFailed == "Failed to process Excel file. Please check the file format."

ErrorType == "Please upload an Excel file (.xlsx or .xls)"

\* A run of processExcelFile: awaiting the file ("reading"), awaiting the
\* 500 ms timeout ("waiting"), or over ("done", "failed"); interval tells
\* whether its progressInterval is still set, mounted whether the uploader
\* that started it is still mounted (state setters of an unmounted
\* component do nothing), timer the place of its timeout among the timeouts
\* set so far (0: not set)
Run(file) ==
  [file |-> file, stage |-> "reading", interval |-> TRUE, mounted |-> TRUE,
   timer |-> 0]

InFlight(run) == run.stage \in {"reading", "waiting"}

\* the panels not shown stay as created, the panel of the tab is mounted on
\* the rows and its mount effects run
ShowTab(tab, rows) ==
  /\ activeTab' = tab
  /\ data' = rows
  /\ searchTerm' = <<>>
  /\ filteredData' = IF tab = "data" THEN rows ELSE <<>>
  /\ sortColumn' = ""
  /\ sortDirection' = "asc"
  /\ currentPage' = 1
  /\ rowsPerPage' = 10
  /\ selectedColumns' = IF tab = "data" THEN columns(rows) ELSE <<>>
  /\ selectedColumn' = IF tab = "analysis" THEN defaultSelectedColumn(rows) ELSE ""
  /\ chartType' = "bar"
  /\ xAxisField' = IF tab = "charts" /\ HasDefaults(rows)
                     THEN categoricalColumns(rows)[1] ELSE ""
  /\ yAxisFields' = IF tab = "charts" /\ HasDefaults(rows)
                      THEN <<numericColumns(rows)[1]>> ELSE <<>>

\* the table is shown already and stays mounted: its data prop changes and
\* its two effects run again; the search term, the sort indicator and the
\* rows per page are kept
TableReceives(rows) ==
  /\ data' = rows
  /\ selectedColumns' = IF Len(rows) > 0 THEN columns(rows) ELSE selectedColumns
  /\ filteredData' = searchResult(rows, searchTerm)
  /\ currentPage' = 1
  /\ UNCHANGED <<searchTerm, sortColumn, sortDirection, rowsPerPage>>
  /\ UNCHANGED <<activeTab, selectedColumn, chartType, xAxisField, yAxisFields>>

\* the uploader is unmounted: its state is lost (the next one starts from
\* the useState values), the timers and promises of its runs go on
UploaderUnmounts(rs) ==
  /\ isDragging' = FALSE
  /\ isLoading' = FALSE
  /\ progress' = 0
  /\ error' = ""
  /\ runs' = [r \in 1..Len(rs) |-> [rs[r] EXCEPT !.mounted = FALSE]]

\* the page as it is loaded: the upload tab, no dataset
InitUploader ==
  /\ data = <<>>
  /\ PanelsCreated
  /\ TableCreated
  /\ UploaderCreated
  /\ activeTab = "upload"
  /\ excelData = NoData
  /\ fileName = ""

UploaderShown == activeTab = "upload"

handleDragOver ==
  /\ UploaderShown
  /\ isDragging' = TRUE
  /\ UNCHANGED <<isLoading, progress, error, runs>>
  /\ UNCHANGED <<data, selectedColumn, chartType, xAxisField, yAxisFields,
                 tableVars, homeVars>>

handleDragLeave ==
  /\ UploaderShown
  /\ isDragging' = FALSE
  /\ UNCHANGED <<isLoading, progress, error, runs>>
  /\ UNCHANGED <<data, selectedColumn, chartType, xAxisField, yAxisFields,
                 tableVars, homeVars>>

\* processExcelFile up to its first await; the type check of the two
\* handlers comes before it
submitFile(file) ==
  /\ Len(runs) < MaxRuns
  /\ IF IsExcelType(file)
       THEN /\ isLoading' = TRUE
            /\ error' = ""
            /\ runs' = Append(runs, Run(file))
       ELSE /\ error' = ErrorType
            /\ UNCHANGED <<isLoading, runs>>
  /\ UNCHANGED progress
  /\ UNCHANGED <<data, selectedColumn, chartType, xAxisField, yAxisFields,
                 tableVars, homeVars>>

\* a file dropped on the drop zone
handleDrop(file) ==
  /\ UploaderShown
  /\ isDragging' = FALSE
  /\ submitFile(file)

\* a file chosen in the file input, which is disabled while isLoading
handleFileChange(file) ==
  /\ UploaderShown
  /\ ~isLoading
  /\ UNCHANGED isDragging
  /\ submitFile(file)

\* a tick of the progressInterval of run r (every 100 ms while it is set)
IntervalTick(r) ==
  /\ runs[r].interval
  /\ runs[r].mounted
  /\ IF progress >= 90
       THEN /\ runs' = [runs EXCEPT ![r].interval = FALSE]
            /\ UNCHANGED progress
       ELSE /\ progress' = progress + 10
            /\ UNCHANGED runs
  /\ UNCHANGED <<isDragging, isLoading, error>>
  /\ UNCHANGED <<data, selectedColumn, chartType, xAxisField, yAxisFields,
                 tableVars, homeVars>>

\* run r goes on after its await: the rest of the try block, or the catch
\* block, which leaves the progressInterval set
ReadEnds(r) ==
  LET TimersSet == Cardinality({q \in 1..Len(runs) : runs[q].timer > 0}) IN
  /\ runs[r].stage = "reading"
  /\ IF ReadThrows(runs[r].file)
       THEN /\ runs' = [runs EXCEPT ![r].stage = "failed"]
            /\ IF runs[r].mounted
                 THEN error' = ErrorFailed /\ isLoading' = FALSE /\ progress' = 0
                 ELSE UNCHANGED <<error, isLoading, progress>>
       ELSE /\ runs' = [runs EXCEPT ![r].stage = "waiting",
                                     ![r].interval = FALSE,
                                     ![r].timer = TimersSet + 1]
            /\ progress' = IF runs[r].mounted THEN 100 ELSE progress
            /\ UNCHANGED <<error, isLoading>>
  /\ UNCHANGED isDragging
  /\ UNCHANGED <<data, selectedColumn, chartType, xAxisField, yAxisFields,
                 tableVars, homeVars>>

\* the 500 ms timeout of run r: onDataLoaded is handleExcelData of the page,
\* which shows the data tab; the uploader, if shown, is unmounted by that.
\* Timeouts of the same delay fire in the order they were set.
TimeoutFires(r) ==
  /\ runs[r].stage = "waiting"
  /\ \A q \in 1..Len(runs) : runs[q].stage = "waiting" => runs[r].timer <= runs[q].timer
  /\ excelData' = Loaded(sheetToJson(runs[r].file))
  /\ fileName' = runs[r].file
  /\ IF activeTab = "data"
       THEN TableReceives(sheetToJson(runs[r].file))
       ELSE ShowTab("data", sheetToJson(runs[r].file))
  /\ UploaderUnmounts([runs EXCEPT ![r].stage = "done"])

\* a click on a tab button; the three panels' buttons are disabled without
\* a dataset
setActiveTab(tab) ==
  /\ tab # activeTab
  /\ tab # "upload" => ~excelData.isNull
  /\ ShowTab(tab, excelData.rows)
  /\ UploaderUnmounts(runs)
  /\ UNCHANGED <<excelData, fileName>>

\* the controls of the chart viewer as the page offers them: the Select of
\* the x-field lists the keys of the first row, the y-field buttons the
\* numeric columns
XAxisSelect(column) == Includes(columns(data), column) /\ setXAxisField(column)

YAxisButton(field) == Includes(numericColumns(data), field) /\ toggleYAxisField(field)

\* the Select of the analysis panel lists the keys of the first row; the
\* panel renders it only for a non-empty dataset
ColumnSelect(column) ==
  /\ activeTab = "analysis"
  /\ Len(data) > 0
  /\ Includes(columns(data), column)
  /\ setSelectedColumn(column)

NextUploader ==
  \/ handleDragOver
  \/ handleDragLeave
  \/ \E file \in Files : handleDrop(file)
  \/ \E file \in Files : handleFileChange(file)
  \/ \E r \in 1..Len(runs) : IntervalTick(r)
  \/ \E r \in 1..Len(runs) : ReadEnds(r)
  \/ \E r \in 1..Len(runs) : TimeoutFires(r)
  \/ \E tab \in {"upload", "data", "charts", "analysis"} : setActiveTab(tab)
  \/ NextTable
  \/ \E kind \in ChartKinds : setChartType(kind)
  \/ \E column \in ColumnNames : XAxisSelect(column)
  \/ \E field \in ColumnNames : YAxisButton(field)
  \/ \E column \in ColumnNames : ColumnSelect(column)

SpecUploader == InitUploader /\ [][NextUploader]_vars

----------------------------------------------------------------------------
(* Claims about the classification and the statistics (SpecAnalysis) *)

\* empty in the sense of the data model: absent, null or the blank string
ValueIsEmpty(v) == v.t \in {"undefined", "null"} \/ v = Str(<<>>)

\* the value parses as a number
ValueParses(v) == ~isNaN(Number(v))

\* the rows of the dataset whose value in the selected column is neither
\* empty nor unparseable
KeptRows ==
  SelectSeq(data, LAMBDA row :
    ~ValueIsEmpty(Get(row, selectedColumn)) /\ ValueParses(Get(row, selectedColumn)))

\* the numbers the kept rows hold in the selected column
KeptNumbers == [i \in 1..Len(KeptRows) |-> Number(Get(KeptRows[i], selectedColumn))]

\* C1: in a numeric result, the rows whose value is empty (absent, null,
\* blank) or fails the numeric parse are left out of count, sum, min and max
\* and are the rows counted by emptyCount.
C1_EmptyAndInvalidExcluded ==
  columnStats.type = "numeric" =>
    /\ columnStats.count = Len(KeptRows)
    /\ columnStats.emptyCount = Len(data) - Len(KeptRows)
    /\ columnStats.sum = SumSeq(KeptNumbers)
    /\ Len(KeptRows) > 0 =>
         /\ columnStats.min = MathMin(KeptNumbers)
         /\ columnStats.max = MathMax(KeptNumbers)

\* C2: a column of a non-empty dataset is numeric exactly when each of its
\* values in the first min(5, rowCount) rows is empty or parses as a number.
C2_NumericIffSampleEmptyOrNumeric ==
  \A c \in ColumnNames :
    Len(data) > 0 =>
      (isNumericColumn(data, c) <=>
         \A i \in 1..Min(5, Len(data)) :
           ValueIsEmpty(Get(data[i], c)) \/ ValueParses(Get(data[i], c)))

\* C2 witness: three or more sampled rows, exactly one of them holding a
\* value that is neither empty nor numeric, and the column is categorical
C2_Witness ==
  /\ Len(data) >= 3
  /\ Cardinality({i \in 1..Min(5, Len(data)) :
        ~ValueIsEmpty(Get(data[i], "a")) /\ ~ValueParses(Get(data[i], "a"))}) = 1
  /\ \E i \in 1..Min(5, Len(data)) : Get(data[i], "a").t = "number"
  /\ ~isNumericColumn(data, "a")

\* C6: emptyCount + count is the number of rows, for both kinds of result.
C6_CountsAddUp ==
  columnStats.type \in {"numeric", "categorical"} =>
    columnStats.emptyCount + columnStats.count = Len(data)

\* C6 witness: a categorical result with both empty and valid values
C6_Witness ==
  /\ columnStats.type = "categorical"
  /\ columnStats.emptyCount > 0
  /\ columnStats.count > 1

\* C7: min <= q1 <= median <= q3 <= max and min <= mean <= max in every
\* numeric result.
C7_OrderStatistics ==
  columnStats.type = "numeric" =>
    /\ FracLeq(columnStats.min, columnStats.q1)
    /\ FracLeq(columnStats.q1, columnStats.median)
    /\ FracLeq(columnStats.median, columnStats.q3)
    /\ FracLeq(columnStats.q3, columnStats.max)
    /\ FracLeq(columnStats.min, columnStats.mean)
    /\ FracLeq(columnStats.mean, columnStats.max)

\* C8: the result is the sentinel when the dataset is empty, when no column
\* is selected, and when the column is numeric and none of its values parses.
C8_Unavailable ==
  (\/ Len(data) = 0
   \/ selectedColumn = ""
   \/ /\ isNumericColumn(data, selectedColumn)
      /\ \A i \in 1..Len(data) : ~ValueParses(Get(data[i], selectedColumn)))
  => columnStats = NoStats

\* C8 witness: a selected numeric column of a non-empty dataset without one
\* value that parses
C8_Witness ==
  /\ Len(data) > 0
  /\ selectedColumn # ""
  /\ isNumericColumn(data, selectedColumn)
  /\ \A i \in 1..Len(data) : ~ValueParses(Get(data[i], selectedColumn))
  /\ columnStats = NoStats

\* C10: the classification depends on the first 5 rows only: whatever
\* replaces the rows after the fifth, every column keeps its classification.
C10_OnlyTheSampleCounts ==
  \A c \in ColumnNames :
    \A later \in SeqsUpTo(AnalysisRows, 2) :
      Len(data) >= 5 =>
        isNumericColumn(SubSeq(data, 1, 5) \o later, c) = isNumericColumn(data, c)

\* C10 witness: the sampled values of a column are all absent, a later row
\* holds text, and the column is numeric
C10_Witness ==
  /\ Len(data) > 5
  /\ \A i \in 1..5 : Get(data[i], "a").t = "undefined"
  /\ \E i \in 6..Len(data) :
       Get(data[i], "a").t = "string" /\ ~ValueParses(Get(data[i], "a"))
  /\ isNumericColumn(data, "a")

----------------------------------------------------------------------------
(* Claims about the chart aggregation (SpecChart) *)

\* the aggregation runs: none of its three guards returns early
Aggregating == Len(data) > 0 /\ xAxisField # "" /\ Len(yAxisFields) > 0

BarOrLine == chartType = "bar" \/ chartType = "line"

\* the group the data model puts a row in: the "undefined" bucket when its
\* x-value is missing (absent, null or blank), the string form of the value
\* when it is present
GroupOfRow(item) ==
  IF ValueIsEmpty(Get(item, xAxisField)) THEN UndefinedString
  ELSE String(Get(item, xAxisField))

\* the keys of the groups in the output
OutputKeys == {chartGroups[j].key : j \in 1..Len(chartGroups)}

\* C3: in bar/line aggregation a row with a present x-value v is grouped
\* under the string form of v, a row with a missing x-value under
\* "undefined", and the output has exactly one row per distinct string form.
C3_GroupedByStringForm ==
  (Aggregating /\ BarOrLine) =>
    /\ OutputKeys = {GroupOfRow(data[i]) : i \in 1..Len(data)}
    /\ Len(chartGroups) = Cardinality({GroupOfRow(data[i]) : i \in 1..Len(data)})

\* the first row of the dataset that the aggregation puts in the group key
FirstSeen(key) ==
  CHOOSE i \in 1..Len(data) :
    /\ xValueOf(data[i], xAxisField) = key
    /\ \A k \in 1..(i - 1) : xValueOf(data[k], xAxisField) # key

\* C4: the rows of the output (bar, line and pie) are in the order in which
\* their x-values are first seen in the dataset.
C4_FirstSeenOrder ==
  Aggregating =>
    \A j1, j2 \in 1..Len(chartGroups) :
      j1 < j2 <=> FirstSeen(chartGroups[j1].key) < FirstSeen(chartGroups[j2].key)

\* what a row adds to the sum of a y-field: its value when it parses as a
\* number, 0 when it does not or is missing
Contribution(item, field) ==
  IF ValueParses(Get(item, field)) THEN Number(Get(item, field)) ELSE Finite(0)

RECURSIVE SumOverRows(_, _)
SumOverRows(rows, field) ==
  IF rows = {} THEN Finite(0)
  ELSE LET i == CHOOSE i \in rows : TRUE IN
         FracAdd(Contribution(data[i], field), SumOverRows(rows \ {i}, field))

\* C5: in bar/line aggregation the value of each y-field in each output row
\* is the sum of that field's contributions over the rows of the group.
C5_SumPerGroup ==
  (Aggregating /\ BarOrLine) =>
    \A j \in 1..Len(chartGroups) :
      \A f \in 1..Len(yAxisFields) :
        chartData[j][yAxisFields[f]] =
          NumValue(SumOverRows({i \in 1..Len(data) :
                             xValueOf(data[i], xAxisField) = chartGroups[j].key},
                          yAxisFields[f]))

\* C5 witness: a group of two or more rows of which one holds text and one
\* a non-zero number in the summed field
C5_Witness ==
  /\ Aggregating /\ BarOrLine
  /\ xAxisField = "b"
  /\ yAxisFields = <<"a">>
  /\ \E j \in 1..Len(chartGroups) :
       /\ FracLess(Finite(0), chartData[j]["a"].n)
       /\ \E i \in 1..Len(data) :
            /\ xValueOf(data[i], "b") = chartGroups[j].key
            /\ ~ValueParses(Get(data[i], "a"))

\* C9: the output is empty when the dataset is empty, the x-field is unset
\* or no y-field is selected, whatever the chart kind.
C9_EmptyOutput ==
  (Len(data) = 0 \/ xAxisField = "" \/ Len(yAxisFields) = 0) => chartData = <<>>

\* C9 witness: a pie chart over a non-empty dataset with a y-field selected
\* and no x-field
C9_Witness ==
  /\ Len(data) > 0
  /\ chartType = "pie"
  /\ xAxisField = ""
  /\ Len(yAxisFields) > 0
  /\ chartData = <<>>

----------------------------------------------------------------------------
(* Claims about the categorical statistics *)

\* the rows whose value in the selected column is not empty
FilledRows == {i \in 1..Len(data) : ~ValueIsEmpty(Get(data[i], selectedColumn))}

\* the string form of the value of row i in the selected column
KeyOfRow(i) == String(Get(data[i], selectedColumn))

\* the distinct string forms of the non-empty values
DistinctKeys == {KeyOfRow(i) : i \in FilledRows}

\* how many rows hold a value of that string form
Occurrences(key) == Cardinality({i \in FilledRows : KeyOfRow(i) = key})

\* the first row that holds a value of that string form
FirstRowOf(key) ==
  CHOOSE i \in FilledRows :
    KeyOfRow(i) = key /\ \A k \in FilledRows : KeyOfRow(k) = key => i <= k

\* C11: in a categorical result mode is a key of the highest frequency,
\* modeFrequency is that frequency, and of the keys that share the highest
\* frequency the mode is the one met first in the dataset.
C11_ModeIsFirstMostFrequent ==
  columnStats.type = "categorical" =>
    /\ columnStats.mode \in DistinctKeys
    /\ columnStats.modeFrequency = Occurrences(columnStats.mode)
    /\ \A key \in DistinctKeys :
         /\ Occurrences(key) <= columnStats.modeFrequency
         /\ Occurrences(key) = columnStats.modeFrequency =>
              FirstRowOf(columnStats.mode) <= FirstRowOf(key)

\* C11 witness: two keys share the highest frequency, which is 2 or more,
\* and the one that is not the mode occurs before the last occurrence of
\* the mode
C11_Witness ==
  /\ columnStats.type = "categorical"
  /\ columnStats.modeFrequency >= 2
  /\ \E key \in DistinctKeys :
       /\ key # columnStats.mode
       /\ Occurrences(key) = columnStats.modeFrequency
       /\ \E i \in FilledRows :
            KeyOfRow(i) = columnStats.mode /\ FirstRowOf(key) < i

\* the keys listed by frequencies
ListedKeys ==
  {columnStats.frequencies[j].key : j \in 1..Len(columnStats.frequencies)}

\* C12: frequencies lists keys with their counts in descending order of
\* count, keys of equal count in the order in which they are first met; it
\* holds the 10 first of that order, or all the keys when they are fewer.
C12_TopTenByCountThenFirstSeen ==
  columnStats.type = "categorical" =>
    LET f == columnStats.frequencies IN
      /\ Len(f) = Min(10, Cardinality(DistinctKeys))
      /\ Cardinality(ListedKeys) = Len(f)
      /\ \A j \in 1..Len(f) :
           f[j].key \in DistinctKeys /\ f[j].count = Occurrences(f[j].key)
      /\ \A j, k \in 1..Len(f) :
           j < k =>
             \/ f[j].count > f[k].count
             \/ /\ f[j].count = f[k].count
                /\ FirstRowOf(f[j].key) < FirstRowOf(f[k].key)
      /\ \A key \in DistinctKeys \ ListedKeys :
           \A j \in 1..Len(f) :
             \/ f[j].count > Occurrences(key)
             \/ /\ f[j].count = Occurrences(key)
                /\ FirstRowOf(f[j].key) < FirstRowOf(key)

\* C12 witness: more than 10 keys, the most frequent of them not the first
\* one met, and keys of equal count both inside and outside the list
C12_Witness ==
  /\ columnStats.type = "categorical"
  /\ Cardinality(DistinctKeys) > 10
  /\ Len(columnStats.frequencies) = 10
  /\ columnStats.frequencies[1].key # KeyOfRow(1)
  /\ columnStats.frequencies[1].count > columnStats.frequencies[2].count
  /\ columnStats.frequencies[9].count = columnStats.frequencies[10].count
  /\ \E key \in DistinctKeys \ ListedKeys :
       Occurrences(key) = columnStats.frequencies[10].count

\* rows whose value of the selected column is the number 7, or the text "7"
RowsOfNumber7 == {i \in 1..Len(data) : Get(data[i], selectedColumn) = Num(7)}

RowsOfText7 == {i \in 1..Len(data) : Get(data[i], selectedColumn) = Str(<<"7">>)}

\* C13: uniqueCount is the number of distinct strings among the string forms
\* of the non-empty values of the column, over all the rows.
C13_UniqueCountIsDistinctStrings ==
  columnStats.type = "categorical" =>
    columnStats.uniqueCount = Cardinality(DistinctKeys)

\* C13 witness: a number and a text of the same string form, repeated keys
\* and an empty value in one column
C13_Witness ==
  /\ columnStats.type = "categorical"
  /\ RowsOfNumber7 # {}
  /\ RowsOfText7 # {}
  /\ columnStats.uniqueCount >= 3
  /\ columnStats.uniqueCount < columnStats.count

\* the sum of the counts of the first k entries of frequencies
RECURSIVE SumOfCounts(_, _)
SumOfCounts(f, k) == IF k = 0 THEN 0 ELSE SumOfCounts(f, k - 1) + f[k].count

FrequenciesTotal == SumOfCounts(columnStats.frequencies, Len(columnStats.frequencies))

\* C14: the counts in frequencies add up to at most count, and to count only
\* when uniqueCount is at most 10.
C14_FrequenciesSumAtMostCount ==
  columnStats.type = "categorical" =>
    /\ FrequenciesTotal <= columnStats.count
    /\ FrequenciesTotal = columnStats.count => columnStats.uniqueCount <= 10

\* C14 witness: more than 10 keys, some of them repeated, the total of the
\* listed counts below count
C14_Witness ==
  /\ columnStats.type = "categorical"
  /\ columnStats.uniqueCount > 10
  /\ columnStats.frequencies[1].count >= 2
  /\ columnStats.emptyCount >= 1
  /\ FrequenciesTotal < columnStats.count

----------------------------------------------------------------------------
(* Claims about the numeric statistics on infinite values (SpecExtremes) *)

\* the valid values of the selected column are all the same number
AllValidValuesEqual ==
  LET validValues == validValuesOf(data, selectedColumn) IN
    \A i, j \in 1..Len(validValues) : FracEq(validValues[i], validValues[j])

\* stdDev >= 0: a root that is not NaN is not negative
StdDevIsNonNegative == ~columnStats.stdDev.nan

\* stdDev = 0: the root of 0
StdDevIsZero == ~columnStats.stdDev.nan /\ columnStats.stdDev.square = Finite(0)

\* C15: in every numeric result stdDev >= 0, and stdDev = 0 (the variance
\* is 0) exactly when all the valid values are equal.
C15_StdDevZeroIffAllEqual ==
  columnStats.type = "numeric" =>
    /\ StdDevIsNonNegative
    /\ StdDevIsZero <=> AllValidValuesEqual
    /\ FracEq(columnStats.variance, Finite(0)) <=> AllValidValuesEqual

----------------------------------------------------------------------------
(* Claims about the pie aggregation and the coercion of y-values (SpecChart) *)

\* the bar/line aggregation of the same dataset, x-field and y-fields
BarGroups == chartGroupsOf(data, "bar", xAxisField, yAxisFields)

\* C16: the pie output has the groups of the bar/line aggregation in the
\* same order, each row being {name, value} with name the x-value and value
\* the bar/line sum of the first y-field; the y-fields after the first do
\* not change the output.
C16_PieIsBarOfFirstYField ==
  (Aggregating /\ chartType = "pie") =>
    /\ Len(chartData) = Len(BarGroups)
    /\ \A j \in 1..Len(BarGroups) :
         /\ chartGroups[j].key = BarGroups[j].key
         /\ chartData[j] = [name |-> Str(BarGroups[j].key),
                            value |-> BarGroups[j].row[yAxisFields[1]]]
    /\ chartData = chartDataOf(data, "pie", xAxisField, <<yAxisFields[1]>>)
    /\ chartGroupsOf(data, "line", xAxisField, yAxisFields) = BarGroups

\* C16 witness: a pie of two y-fields and two or more groups, whose output
\* would differ if the second y-field were the one summed
C16_Witness ==
  /\ Aggregating
  /\ chartType = "pie"
  /\ Len(yAxisFields) = 2
  /\ Len(chartData) >= 2
  /\ Len(chartData) < Len(data)
  /\ chartData # chartDataOf(data, "pie", xAxisField, <<yAxisFields[2]>>)

\* C17: the note about the pie is shown exactly in the states where the
\* chart kind is pie and more than one y-field is selected, and there the
\* pie data is that of the first y-field.
C17_NoticeIffPieOfManyFields ==
  /\ pieNotice <=> (chartType = "pie" /\ Len(yAxisFields) > 1)
  /\ pieNotice =>
       chartData = chartDataOf(data, "pie", xAxisField, <<yAxisFields[1]>>)

\* C17 witness: the note is shown over a pie that has rows
C17_Witness ==
  /\ pieNotice
  /\ xAxisField # ""
  /\ Len(chartData) >= 1
  /\ \E j \in 1..Len(chartData) : chartData[j].value # Num(0)

\* the rows of the dataset that the aggregation puts in the group key
RowsOfGroup(key) == {i \in 1..Len(data) : xValueOf(data[i], xAxisField) = key}

\* the y-value is missing or is not numeric
NotNumeric(v) == ValueIsEmpty(v) \/ ~ValueParses(v)

\* the y-fields the aggregation sums: all of them for bar and line, the
\* first for pie
SummedFields ==
  IF chartType = "pie" THEN {yAxisFields[1]}
  ELSE {yAxisFields[f] : f \in 1..Len(yAxisFields)}

\* the value the output row j holds for the y-field
ValueInRow(j, field) ==
  IF chartType = "pie" THEN chartData[j].value ELSE chartData[j][field]

\* C18: a y-value that does not parse counts as 0 and its row is not left
\* out: every row has its group in the output, and a group whose rows all
\* hold a non-numeric or missing y-value has the value 0 for that y-field.
C18_NonNumericCountsAsZero ==
  Aggregating =>
    /\ \A i \in 1..Len(data) : xValueOf(data[i], xAxisField) \in OutputKeys
    /\ \A j \in 1..Len(chartGroups) :
         \A field \in SummedFields :
           (\A i \in RowsOfGroup(chartGroups[j].key) : NotNumeric(Get(data[i], field)))
             => ValueInRow(j, field) = Num(0)

----------------------------------------------------------------------------
(* Claims about the median (SpecAnalysis) *)

\* the valid values of the selected column, in ascending order
SortedValidValues == SortAsc(validValuesOf(data, selectedColumn))

\* how many times the number x occurs in the sequence
TimesIn(values, x) == Cardinality({i \in 1..Len(values) : values[i] = x})

\* sorted holds the numbers of values, each as many times, in ascending order
IsAscendingOrderOf(sorted, values) ==
  /\ Len(sorted) = Len(values)
  /\ \A i \in 1..Len(values) : TimesIn(sorted, values[i]) = TimesIn(values, values[i])
  /\ \A i \in 1..(Len(sorted) - 1) : FracLeq(sorted[i], sorted[i + 1])

\* C20: the median is taken from the valid values in ascending order: with
\* an odd count it is the element at index floor(count / 2), with an even
\* count the average of the elements at indices count / 2 - 1 and count / 2
\* (indices from 0).
C20_MedianOfSortedValues ==
  columnStats.type = "numeric" =>
    LET n == columnStats.count IN
      /\ IsAscendingOrderOf(SortedValidValues, validValuesOf(data, selectedColumn))
      /\ n % 2 = 1 => columnStats.median = SortedValidValues[(n \div 2) + 1]
      /\ n % 2 = 0 =>
           columnStats.median =
             FracDivInt(FracAdd(SortedValidValues[n \div 2],
                                SortedValidValues[(n \div 2) + 1]), 2)

\* C20 witness: an even count of four or more values that are not in
\* ascending order in the dataset and whose two central elements differ
C20_Witness ==
  /\ columnStats.type = "numeric"
  /\ columnStats.count >= 4
  /\ columnStats.count % 2 = 0
  /\ validValuesOf(data, selectedColumn) # SortedValidValues
  /\ SortedValidValues[columnStats.count \div 2]
       # SortedValidValues[(columnStats.count \div 2) + 1]
  /\ columnStats.median # SortedValidValues[(columnStats.count \div 2) + 1]

----------------------------------------------------------------------------
(* Claims about the quartiles and the non-empty results (SpecAnalysis) *)

\* Math.floor(count * 0.25) and Math.floor(count * 0.75), indices from 0
Q1Index == columnStats.count \div 4

Q3Index == (3 * columnStats.count) \div 4

\* C21: q1 and q3 are the elements at indices floor(count * 0.25) and
\* floor(count * 0.75) of the valid values in ascending order; both indices
\* lie inside the sequence, so q1 and q3 are values of the column.
C21_QuartilesByFloorIndex ==
  columnStats.type = "numeric" =>
    LET values == validValuesOf(data, selectedColumn) IN
      /\ columnStats.count = Len(values)
      /\ IsAscendingOrderOf(SortedValidValues, values)
      /\ Q1Index \in 0..(columnStats.count - 1)
      /\ Q3Index \in 0..(columnStats.count - 1)
      /\ columnStats.q1 = SortedValidValues[Q1Index + 1]
      /\ columnStats.q3 = SortedValidValues[Q3Index + 1]
      /\ \E i \in 1..Len(values) : values[i] = columnStats.q1
      /\ \E i \in 1..Len(values) : values[i] = columnStats.q3

\* C21 witness: five or more values, not in ascending order in the dataset,
\* with q1 above the minimum and below q3
C21_Witness ==
  /\ columnStats.type = "numeric"
  /\ columnStats.count >= 5
  /\ validValuesOf(data, selectedColumn) # SortedValidValues
  /\ FracLess(columnStats.min, columnStats.q1)
  /\ FracLess(columnStats.q1, columnStats.q3)

----------------------------------------------------------------------------
(* Claims about the selection of the y-fields (SpecChart) *)

NoDuplicates(fields) ==
  \A i, j \in 1..Len(fields) : fields[i] = fields[j] => i = j

\* the list without the field, the other fields in their order
Without(fields, field) == SelectSeq(fields, LAMBDA f : f # field)

\* a step that changes the y-fields appends a field that was not selected or
\* removes a selected one that was not the only one; the list stays free of
\* duplicates and, once it is non-empty, non-empty
YFieldsStep ==
  /\ NoDuplicates(yAxisFields')
  /\ Len(yAxisFields) > 0 => Len(yAxisFields') > 0
  /\ yAxisFields' # yAxisFields =>
       \E field \in ColumnNames :
         \/ /\ ~Includes(yAxisFields, field)
            /\ yAxisFields' = Append(yAxisFields, field)
         \/ /\ Includes(yAxisFields, field)
            /\ Len(yAxisFields) > 1
            /\ yAxisFields' = Without(yAxisFields, field)

\* C22: the y-field list starts free of duplicates and every
\* toggleYAxisField call keeps it so; once non-empty it stays non-empty: an
\* unselected field is appended, a selected one is removed unless it is the
\* only one, and then the list is left as it is.
C22_YFieldsStayNonEmptyAndDistinct ==
  NoDuplicates(yAxisFields) /\ [][YFieldsStep]_vars

\* C22 witness: the field selected by default has been replaced by another
\* one, which takes an append and a removal
C22_Witness ==
  /\ HasDefaults(data)
  /\ Len(yAxisFields) = 1
  /\ yAxisFields[1] # numericColumns(data)[1]

\* C23: a result that is not the sentinel has count >= 1, so the divisions
\* by count and by count + emptyCount are divisions by a positive number; a
\* categorical result has modeFrequency >= 1 and a frequencies list that is
\* not empty.
C23_ResultsAreNeverEmpty ==
  columnStats # NoStats =>
    /\ columnStats.count >= 1
    /\ columnStats.count + columnStats.emptyCount >= 1
    /\ columnStats.type = "numeric" =>
         /\ columnStats.mean = FracDivInt(columnStats.sum, columnStats.count)
         /\ ~isNaN(columnStats.mean)
         /\ ~isNaN(columnStats.variance)
    /\ columnStats.type = "categorical" =>
         /\ columnStats.modeFrequency >= 1
         /\ Len(columnStats.frequencies) >= 1
         /\ columnStats.uniqueCount >= 1

\* C23 witness: a categorical result with a single valid value among empty
\* ones
C23_Witness ==
  /\ columnStats.type = "categorical"
  /\ columnStats.count = 1
  /\ columnStats.emptyCount >= 2
  /\ columnStats.modeFrequency = 1

\* C24: in a categorical result mode and modeFrequency are the key and the
\* count of the first entry of frequencies.
C24_ModeIsFirstFrequency ==
  columnStats.type = "categorical" =>
    /\ Len(columnStats.frequencies) >= 1
    /\ columnStats.mode = columnStats.frequencies[1].key
    /\ columnStats.modeFrequency = columnStats.frequencies[1].count

\* C24 witness: two keys share the highest count and the dataset starts
\* with a key of a lower count
C24_Witness ==
  /\ columnStats.type = "categorical"
  /\ Len(columnStats.frequencies) >= 3
  /\ columnStats.frequencies[2].count = columnStats.modeFrequency
  /\ columnStats.frequencies[3].count < columnStats.modeFrequency
  /\ \E i \in FilledRows :
       /\ \A k \in FilledRows : i <= k
       /\ KeyOfRow(i) = columnStats.frequencies[3].key

----------------------------------------------------------------------------
(* Claims about the data table (SpecTable) *)

\* C25: after any sequence of search changes, rows-per-page changes and
\* First/Prev/Next/Last clicks, currentPage is a page of the table: it lies
\* in 1..max(1, totalPages), where totalPages is
\* ceil(filteredData.length / rowsPerPage).
C25_CurrentPageWithinPages == currentPage \in 1..Max(1, totalPages)

\* rows are in the order of column in the given direction: no row comes
\* after a row the comparator of that direction puts behind it
IsOrderedBy(rows, column, direction) ==
  \A i \in 1..Len(rows) : \A j \in i..Len(rows) :
    CompareRows(rows[i], rows[j], column, direction) <= 0

\* only handleSort changes the sort indicator, and every call changes it
SortIndicatorChanges ==
  <<sortColumn, sortDirection>>' # <<sortColumn, sortDirection>>

\* C26: after every handleSort(column) call the displayed rows are ordered
\* by that column in the direction sortDirection holds after the call: the
\* order of the rows and the sort indicator agree.
C26_RowsOrderedAsIndicated ==
  [][SortIndicatorChanges =>
       /\ IsOrderedBy(filteredData', sortColumn', sortDirection')
       /\ IsOrderedBy(paginatedData', sortColumn', sortDirection')]_vars

----------------------------------------------------------------------------
(* Claims about the uploader (SpecUploader) *)

\* a run of the uploader shown is still being processed
RunInProgress == \E r \in 1..Len(runs) : runs[r].mounted /\ InFlight(runs[r])

\* the last thing the uploader did was to fail: the failure message is
\* shown (a file submitted afterwards replaces or clears it) and no run is
\* being processed
FailureShown == UploaderShown /\ error = ErrorFailed /\ ~RunInProgress

\* C27: when processing a file fails, the uploader ends with isLoading
\* false, the error message set and progress 0, and progress stays 0 until
\* another file is submitted: no callback of the progress timer changes it
\* after the failure.
C27_ProgressStaysZeroAfterFailure == FailureShown => (~isLoading /\ progress = 0)

RunsInFlight == {r \in 1..Len(runs) : InFlight(runs[r])}

\* the runs that have delivered their rows to the page
DeliveredRuns == {r \in 1..Len(runs) : runs[r].stage = "done"}

\* of the workbooks delivered to the page, the one shown is the one
\* submitted last
ShownIsSubmittedLast ==
  DeliveredRuns # {} =>
    fileName = runs[CHOOSE r \in DeliveredRuns : \A q \in DeliveredRuns : q <= r].file

\* C28: at most one processExcelFile run is in flight at any time: a file
\* chosen or dropped while isLoading is true starts no second run, so the
\* dataset shown is that of the file submitted last.
C28_AtMostOneRunInFlight ==
  /\ Cardinality(RunsInFlight) <= 1
  /\ ShownIsSubmittedLast

====
